---- MODULE Spec2Model ----
(***************************************************************************)
(* A model of main.py, the PowerPoint inconsistency analyzer:             *)
(*   - the extraction of the per-slide text (extract_content_from_pptx,   *)
(*     ocr_image),                                                         *)
(*   - the analysis client (analyze_with_gemini),                          *)
(*   - the content-addressed cache (get_file_hash, read_from_cache,        *)
(*     write_to_cache),                                                    *)
(*   - the two report renderers (generate_report,                          *)
(*     generate_plain_text_report),                                        *)
(*   - the orchestration of one run (main).                                *)
(*                                                                         *)
(* Python strings are TLA+ strings (TLC evaluates Len, SubSeq and \o on    *)
(* them).  A JSON value is a record of one shape, so that any two values   *)
(* can be compared:                                                        *)
(*   [t |-> kind, s |-> string, n |-> number, l |-> items, o |-> members]  *)
(* where the members of an object are <<key, value>> pairs in insertion    *)
(* order.  A Python exception is the name of its class; "" is no           *)
(* exception.                                                              *)
(***************************************************************************)
EXTENDS Integers, Sequences, FiniteSets, TLC

VARIABLES
    fs,      \* the source file: 0 when there is no file, else the id of its bytes
    cache,   \* the directory .cache: cache path -> the text of the file there
    run,     \* what the last run of main did
    inp,     \* SpecExtract, SpecRender: the deck or the analysis result given
    out      \* SpecExtract, SpecRender: what the function made of it

vars == <<fs, cache, run, inp, out>>

-----------------------------------------------------------------------------
(* Python str operations *)

IsSpace(c) == c \in {" ", "\n", "\t"}

RECURSIVE LStrip(_)
LStrip(s) ==
    IF s = "" THEN ""
    ELSE IF IsSpace(SubSeq(s, 1, 1)) THEN LStrip(SubSeq(s, 2, Len(s)))
    ELSE s

RECURSIVE RStrip(_)
RStrip(s) ==
    IF s = "" THEN ""
    ELSE IF IsSpace(SubSeq(s, Len(s), Len(s))) THEN RStrip(SubSeq(s, 1, Len(s) - 1))
    ELSE s

\* str.strip()
Strip(s) == RStrip(LStrip(s))

\* pat in s, for strings
StartsWith(s, pat) == Len(s) >= Len(pat) /\ SubSeq(s, 1, Len(pat)) = pat

StrContains(s, pat) ==
    \E i \in 1..(Len(s) - Len(pat) + 1) : SubSeq(s, i, i + Len(pat) - 1) = pat

\* s.find(pat) + 1, for a pat that is in s
Find(s, pat) ==
    CHOOSE i \in 1..(Len(s) - Len(pat) + 1) :
        /\ SubSeq(s, i, i + Len(pat) - 1) = pat
        /\ \A j \in 1..(i - 1) : SubSeq(s, j, j + Len(pat) - 1) # pat

\* str.replace(pat, new): the leftmost occurrences that do not overlap
RECURSIVE Replace(_, _, _)
Replace(s, pat, new) ==
    IF ~StrContains(s, pat) THEN s
    ELSE SubSeq(s, 1, Find(s, pat) - 1) \o new
            \o Replace(SubSeq(s, Find(s, pat) + Len(pat), Len(s)), pat, new)

\* sep.join(parts)
RECURSIVE JoinStr(_, _)
JoinStr(parts, sep) ==
    IF parts = <<>> THEN ""
    ELSE IF Len(parts) = 1 THEN parts[1]
    ELSE parts[1] \o sep \o JoinStr(Tail(parts), sep)

\* os.path.basename
RECURSIVE Basename(_)
Basename(p) ==
    IF StrContains(p, "/")
    THEN Basename(SubSeq(p, Find(p, "/") + 1, Len(p)))
    ELSE p

-----------------------------------------------------------------------------
(* JSON values, as json.loads builds them *)

JNull == [t |-> "null", s |-> "", n |-> 0, l |-> <<>>, o |-> <<>>]
JNum(k) == [t |-> "num", s |-> "", n |-> k, l |-> <<>>, o |-> <<>>]
JStr(x) == [t |-> "str", s |-> x, n |-> 0, l |-> <<>>, o |-> <<>>]
JList(items) == [t |-> "list", s |-> "", n |-> 0, l |-> items, o |-> <<>>]
JObj(members) == [t |-> "obj", s |-> "", n |-> 0, l |-> <<>>, o |-> members]

\* d[key] of a dict that has the key
Lookup(d, key) == LET i == CHOOSE i \in 1..Len(d.o) : d.o[i][1] = key IN d.o[i][2]

HasKey(d, key) == \E i \in 1..Len(d.o) : d.o[i][1] = key

\* The exception of `key in v`: None and numbers are not containers.
InRaises(v) == IF v.t \in {"null", "num"} THEN "TypeError" ELSE ""

\* `key in v` where it does not raise: a key of a dict, an item of a list,
\* a substring of a str.
In(key, v) ==
    CASE v.t = "obj" -> HasKey(v, key)
      [] v.t = "list" -> \E i \in 1..Len(v.l) : v.l[i] = JStr(key)
      [] v.t = "str" -> StrContains(v.s, key)
      [] OTHER -> FALSE

\* The exception of v[key] for a str key: only a dict takes one.
SubscriptRaises(v, key) ==
    CASE v.t = "obj" -> IF HasKey(v, key) THEN "" ELSE "KeyError"
      [] OTHER -> "TypeError"

\* The exception of v.get(...): only a dict has the method.
GetRaises(v) == IF v.t = "obj" THEN "" ELSE "AttributeError"

\* dict.get(key, default)
Get(d, key, default) == IF HasKey(d, key) THEN Lookup(d, key) ELSE default

\* bool(v)
Truthy(v) ==
    CASE v.t = "null" -> FALSE
      [] v.t = "num" -> v.n # 0
      [] v.t = "str" -> v.s # ""
      [] v.t = "list" -> v.l # <<>>
      [] v.t = "obj" -> v.o # <<>>

\* The exception of len(v) and its value
LenRaises(v) == IF v.t \in {"null", "num"} THEN "TypeError" ELSE ""

PyLen(v) ==
    CASE v.t = "str" -> Len(v.s)
      [] v.t = "list" -> Len(v.l)
      [] v.t = "obj" -> Len(v.o)
      [] OTHER -> 0

\* The exception of iter(v), and the items a for loop over v sees: the items
\* of a list, the characters of a str, the keys of a dict.
IterRaises(v) == IF v.t \in {"null", "num"} THEN "TypeError" ELSE ""

Items(v) ==
    CASE v.t = "list" -> v.l
      [] v.t = "str" -> [i \in 1..Len(v.s) |-> JStr(SubSeq(v.s, i, i))]
      [] v.t = "obj" -> [i \in 1..Len(v.o) |-> JStr(v.o[i][1])]
      [] OTHER -> <<>>

\* repr(v) and str(v), as an f-string formats a value
RECURSIVE PyRepr(_)
PyRepr(v) ==
    CASE v.t = "null" -> "None"
      [] v.t = "num" -> ToString(v.n)
      [] v.t = "str" -> "'" \o v.s \o "'"
      [] v.t = "list" ->
            "[" \o JoinStr([i \in 1..Len(v.l) |-> PyRepr(v.l[i])], ", ") \o "]"
      [] v.t = "obj" ->
            "{" \o JoinStr([i \in 1..Len(v.o) |->
                       "'" \o v.o[i][1] \o "': " \o PyRepr(v.o[i][2])], ", ") \o "}"

PyStr(v) == IF v.t = "str" THEN v.s ELSE PyRepr(v)

-----------------------------------------------------------------------------
(* The document: slides, shapes, notes.  python-pptx and the OCR engine are *)
(* outside the program; a shape is what the program reads of it.            *)

MaxSlides == 2     \* slides of a deck
MaxShapes == 2     \* shapes of a deck, over all its slides

TextShape(txt) == [has_text_frame |-> TRUE, text |-> txt, is_picture |-> FALSE, blob |-> ""]
Picture(blob) == [has_text_frame |-> FALSE, text |-> "", is_picture |-> TRUE, blob |-> blob]
OtherShape == [has_text_frame |-> FALSE, text |-> "", is_picture |-> FALSE, blob |-> ""]

\* Image bytes: "corrupt" cannot be decoded, "blank" holds no text, "chart"
\* holds text.
Blobs == {"corrupt", "blank", "chart"}

\* Image.open(io.BytesIO(image_bytes)) raises on bytes that are no image.
ImageOpenRaises(blob) == blob = "corrupt"

\* pytesseract.image_to_string(image)
Tesseract(blob) == IF blob = "chart" THEN "Total 9.8M\n" ELSE " \n"

ocr_image(image_bytes) ==
    IF ImageOpenRaises(image_bytes) THEN "" ELSE Tesseract(image_bytes)

\* The loop over slide.shapes, appending to texts.
RECURSIVE ShapeTexts(_, _)
ShapeTexts(shapes, texts) ==
    IF shapes = <<>> THEN texts
    ELSE LET shape == Head(shapes)
             t1 == IF shape.has_text_frame /\ Strip(shape.text) # ""
                   THEN Append(texts, shape.text) ELSE texts
             ocr_text == ocr_image(shape.blob)
             t2 == IF shape.is_picture /\ Strip(ocr_text) # ""
                   THEN Append(t1, "[Text from Image]:\n" \o ocr_text) ELSE t1
         IN ShapeTexts(Tail(shapes), t2)

\* texts of one slide, the speaker notes last
SlideTexts(slide) ==
    LET texts == ShapeTexts(slide.shapes, <<>>)
    IN IF slide.has_notes_slide /\ Strip(slide.notes) # ""
       THEN Append(texts, "[Speaker Notes]:\n" \o slide.notes)
       ELSE texts

\* A loop that leaves out the slides with no text.
RECURSIVE ExtractLoopSkipEmpty(_, _, _)
ExtractLoopSkipEmpty(slides, i, slide_content) ==
    IF i = Len(slides) THEN slide_content
    ELSE LET texts == SlideTexts(slides[i + 1])
         IN ExtractLoopSkipEmpty(slides, i + 1,
                IF texts = <<>> THEN slide_content
                ELSE ((i + 1) :> JoinStr(texts, "\n---\n")) @@ slide_content)

\* for i, slide in enumerate(prs.slides): slide_content[i + 1] = ...
RECURSIVE ExtractLoop(_, _, _)
ExtractLoop(slides, i, slide_content) ==
    IF i = Len(slides) THEN slide_content
    ELSE ExtractLoop(slides, i + 1,
             ((i + 1) :> JoinStr(SlideTexts(slides[i + 1]), "\n---\n")) @@ slide_content)

\* extract_content_from_pptx, once the file is open: slide number -> text
extract_content_from_pptx(slides) == ExtractLoop(slides, 0, <<>>)

-----------------------------------------------------------------------------
(* SpecExtract: extract_content_from_pptx on every deck within the bounds *)

ShapeOptions ==
    {TextShape("Revenue: $10M"), TextShape(" \n"), OtherShape}
        \cup {Picture(b) : b \in Blobs}

NotesOptions ==
    {[has_notes_slide |-> FALSE, notes |-> ""],
     [has_notes_slide |-> TRUE, notes |-> " "],
     [has_notes_slide |-> TRUE, notes |-> "Mention Q3"]}

\* The deck of n slides whose shapes are flat, shape j on slide at[j].
DeckOf(n, flat, at, notes) ==
    [i \in 1..n |->
        LET idx == SelectSeq([j \in 1..Len(flat) |-> j], LAMBDA j : at[j] = i)
        IN [shapes |-> [m \in 1..Len(idx) |-> flat[idx[m]]],
            has_notes_slide |-> notes[i].has_notes_slide,
            notes |-> notes[i].notes]]

Idle == [done |-> FALSE, content |-> <<>>]

InitExtract ==
    /\ \E n \in 0..MaxSlides, k \in 0..MaxShapes :
         \E flat \in [1..k -> ShapeOptions], at \in [1..k -> 1..n],
            notes \in [1..n -> NotesOptions] :
              /\ \A j \in 1..(k - 1) : at[j] <= at[j + 1]
              /\ inp = DeckOf(n, flat, at, notes)
    /\ out = Idle
    /\ fs = 0 /\ cache = <<>> /\ run = <<>>

Extract ==
    /\ ~out.done
    /\ out' = [done |-> TRUE, content |-> extract_content_from_pptx(inp)]
    /\ UNCHANGED <<fs, cache, run, inp>>

NextExtract == Extract

SpecExtract == InitExtract /\ [][NextExtract]_vars

\* s has a character that is not whitespace
HasInk(s) == \E i \in 1..Len(s) : ~IsSpace(SubSeq(s, i, i))

\* The segment a shape adds to its slide's text, "" when it adds none.
Segment(shape) ==
    IF shape.has_text_frame /\ HasInk(shape.text) THEN shape.text
    ELSE IF shape.is_picture /\ ~ImageOpenRaises(shape.blob)
            /\ HasInk(Tesseract(shape.blob))
    THEN "[Text from Image]:\n" \o Tesseract(shape.blob)
    ELSE ""

NotesSegment(slide) ==
    IF slide.has_notes_slide /\ HasInk(slide.notes)
    THEN "[Speaker Notes]:\n" \o slide.notes ELSE ""

Silent(slide) ==
    /\ \A j \in 1..Len(slide.shapes) : Segment(slide.shapes[j]) = ""
    /\ NotesSegment(slide) = ""

\* C10: extract_content_from_pptx returns one entry per slide, keyed 1..N; a
\* slide with no text, no picture whose OCR yields text and no notes has the
\* entry "", and every shape or notes block that holds text is in its slide's
\* entry, also after a picture whose OCR failed.
C10_OneEntryPerSlide ==
    out.done =>
        /\ DOMAIN out.content = 1..Len(inp)
        /\ \A i \in 1..Len(inp) :
             /\ Silent(inp[i]) <=> out.content[i] = ""
             /\ \A j \in 1..Len(inp[i].shapes) :
                  StrContains(out.content[i], Segment(inp[i].shapes[j]))
             /\ StrContains(out.content[i], NotesSegment(inp[i]))

\* A two-slide deck: a picture that cannot be decoded, then a text shape, on
\* one slide; nothing on the other.
C10_Witness ==
    /\ out.done
    /\ Len(inp) = 2
    /\ \E i \in 1..2 :
         /\ Len(inp[i].shapes) = 2
         /\ inp[i].shapes[1] = Picture("corrupt")
         /\ Segment(inp[i].shapes[2]) # ""
         /\ Silent(inp[3 - i])
         /\ out.content[3 - i] = ""

-----------------------------------------------------------------------------
(* textwrap.wrap(text, width), with the defaults of TextWrapper.  Chunks    *)
(* are the runs of whitespace and of other characters (the further split    *)
(* of a word at its hyphens is left out: it moves line breaks only).        *)

BOX_WIDTH == 90

\* The column (from 0) of the character at i: what follows the last newline
Column(text, i) ==
    IF \E j \in 1..(i - 1) : SubSeq(text, j, j) = "\n"
    THEN i - 1 - (CHOOSE j \in 1..(i - 1) :
                     /\ SubSeq(text, j, j) = "\n"
                     /\ \A m \in (j + 1)..(i - 1) : SubSeq(text, m, m) # "\n")
    ELSE i - 1

\* str.expandtabs(): a tab fills up to the next column that is a multiple of
\* 8, so what follows it starts at such a column again.
RECURSIVE ExpandTabs(_)
ExpandTabs(text) ==
    IF ~StrContains(text, "\t") THEN text
    ELSE LET i == Find(text, "\t")
         IN SubSeq(text, 1, i - 1)
               \o SubSeq("        ", 1, 8 - (Column(text, i) % 8))
               \o ExpandTabs(SubSeq(text, i + 1, Len(text)))

\* _munge_whitespace: tabs expanded, then each whitespace character a space
Munge(text) == Replace(ExpandTabs(text), "\n", " ")

\* The length of the run of spaces (ws) or of other characters text starts with
RunLen(text, ws) ==
    IF \E i \in 1..Len(text) : (SubSeq(text, i, i) = " ") # ws
    THEN (CHOOSE i \in 1..Len(text) :
             /\ (SubSeq(text, i, i) = " ") # ws
             /\ \A j \in 1..(i - 1) : (SubSeq(text, j, j) = " ") = ws) - 1
    ELSE Len(text)

RECURSIVE Chunks(_)
Chunks(text) ==
    IF text = "" THEN <<>>
    ELSE LET k == RunLen(text, SubSeq(text, 1, 1) = " ")
         IN <<SubSeq(text, 1, k)>> \o Chunks(SubSeq(text, k + 1, Len(text)))

\* The inner loop: chunks move to cur_line while they fit.
RECURSIVE FillLine(_, _, _, _)
FillLine(chunks, cur_line, cur_len, width) ==
    IF chunks # <<>> /\ cur_len + Len(Head(chunks)) <= width
    THEN FillLine(Tail(chunks), Append(cur_line, Head(chunks)),
                  cur_len + Len(Head(chunks)), width)
    ELSE [line |-> cur_line, len |-> cur_len, rest |-> chunks]

\* _wrap_chunks: the loop over the lines
RECURSIVE WrapChunks(_, _, _)
RECURSIVE WrapLine(_, _, _)
RECURSIVE WrapClose(_, _, _, _)
WrapChunks(chunks, lines, width) ==
    IF chunks = <<>> THEN lines
    ELSE WrapLine(FillLine(IF Strip(Head(chunks)) = "" /\ lines # <<>>
                           THEN Tail(chunks) ELSE chunks,
                           <<>>, 0, width),
                  lines, width)

\* _handle_long_word: a chunk wider than a line is cut where the line ends
WrapLine(f, lines, width) ==
    IF f.rest # <<>> /\ Len(Head(f.rest)) > width
    THEN WrapClose(Append(f.line, SubSeq(Head(f.rest), 1, width - f.len)),
                   <<SubSeq(Head(f.rest), width - f.len + 1, Len(Head(f.rest)))>>
                       \o Tail(f.rest),
                   lines, width)
    ELSE WrapClose(f.line, f.rest, lines, width)

\* The whitespace a line ends with is dropped; an empty line is no line.
WrapClose(cur_line, rest, lines, width) ==
    IF cur_line # <<>> /\ Strip(cur_line[Len(cur_line)]) = ""
    THEN WrapChunks(rest,
                    IF Len(cur_line) > 1
                    THEN Append(lines, JoinStr(SubSeq(cur_line, 1, Len(cur_line) - 1), ""))
                    ELSE lines,
                    width)
    ELSE WrapChunks(rest,
                    IF cur_line # <<>> THEN Append(lines, JoinStr(cur_line, "")) ELSE lines,
                    width)

\* The exception of textwrap.wrap(v, ...): text.expandtabs() needs a str.
WrapRaises(v) == IF v.t = "str" THEN "" ELSE "AttributeError"

Wrap(text, width) == WrapChunks(Chunks(Munge(text)), <<>>, width)

-----------------------------------------------------------------------------
(* The renderers.  What a renderer writes is a sequence of records          *)
(* [k |-> which statement wrote it, text |-> the text, val |-> the value    *)
(* formatted into it]; colour codes, the padding of centred text and the    *)
(* glyphs of the box are presentation and are left out of text.  A         *)
(* renderer's result is [exc |-> the exception that ended it or "",        *)
(* printed |-> what it wrote before].                                      *)

P(k, text, val) == [k |-> k, text |-> text, val |-> val]

NA == JStr("N/A")
EmptyList == JList(<<>>)

Ok(printed) == [exc |-> "", printed |-> printed]
Raised(exc, printed) == [exc |-> exc, printed |-> printed]

\* print of the first wrapped line, then of the others indented
WrappedPrints(k, lead, lines) ==
    [i \in 1..Len(lines) |->
        IF i = 1 THEN P(k, lead \o lines[1], lines[1])
        ELSE P(k \o "+", lines[i], lines[i])]

\* for ev in evidence: (lines 181-186)
RECURSIVE EvidenceLoop(_, _)
RECURSIVE EvidenceWrapped(_, _, _)
EvidenceLoop(evs, printed) ==
    IF evs = <<>> THEN Ok(printed)
    ELSE IF WrapRaises(Head(evs)) # "" THEN Raised(WrapRaises(Head(evs)), printed)
    ELSE EvidenceWrapped(evs, printed, Wrap(Head(evs).s, BOX_WIDTH - 4))

\* wrapped_evidence[0] and the lines after it (lines 184-186)
EvidenceWrapped(evs, printed, wrapped_evidence) ==
    IF wrapped_evidence = <<>> THEN Raised("IndexError", printed)
    ELSE EvidenceLoop(Tail(evs), printed \o WrappedPrints("evidence", "  - ", wrapped_evidence))

\* for i, issue in enumerate(issues): (lines 159-187); i counts from 0
RECURSIVE IssueLoop(_, _, _)
RECURSIVE IssueFields(_, _, _, _, _, _)
RECURSIVE IssueConflict(_, _, _, _, _)
RECURSIVE IssueEvidence(_, _, _, _)
RECURSIVE IssueNext(_, _, _)
IssueLoop(issues, i, printed) ==
    IF i = Len(issues) THEN Ok(printed)
    ELSE IF GetRaises(issues[i + 1]) # "" THEN Raised(GetRaises(issues[i + 1]), printed)
    ELSE IssueFields(issues, i, printed,
                     Get(issues[i + 1], "type", NA),
                     Get(issues[i + 1], "conflict", NA),
                     Get(issues[i + 1], "evidence", EmptyList))

\* The header and the type of an issue, and the wrapping of its conflict
\* (lines 165-174)
IssueFields(issues, i, printed, issue_type, conflict, evidence) ==
    IF WrapRaises(conflict) # ""
    THEN Raised(WrapRaises(conflict),
                printed \o
                <<P("ordinal", " ISSUE #" \o ToString(i + 1) \o " ", ToString(i + 1)),
                  P("type", "TYPE: " \o PyStr(issue_type), PyStr(issue_type))>>)
    ELSE IssueConflict(issues, i,
                printed \o
                <<P("ordinal", " ISSUE #" \o ToString(i + 1) \o " ", ToString(i + 1)),
                  P("type", "TYPE: " \o PyStr(issue_type), PyStr(issue_type))>>,
                Wrap(conflict.s, BOX_WIDTH - Len("CONFLICT: ") - 1), evidence)

\* wrapped_conflict[0], the lines after it, the label of the evidence
\* (lines 175-180)
IssueConflict(issues, i, printed, wrapped_conflict, evidence) ==
    IF wrapped_conflict = <<>> THEN Raised("IndexError", printed)
    ELSE IssueEvidence(issues, i,
             (printed \o WrappedPrints("conflict", "CONFLICT: ", wrapped_conflict))
                 \o <<P("label", "EVIDENCE:", "")>>,
             evidence)

IssueEvidence(issues, i, printed, evidence) ==
    IF IterRaises(evidence) # "" THEN Raised(IterRaises(evidence), printed)
    ELSE IssueNext(issues, i, EvidenceLoop(Items(evidence), printed))

\* print("") and the next issue (line 187)
IssueNext(issues, i, e) ==
    IF e.exc # "" THEN e
    ELSE IssueLoop(issues, i + 1, Append(e.printed, P("blank", "", "")))

\* The header box without its subtitle (lines 146-148)
ReportHead == <<P("box", "", ""), P("title", " AI Inconsistency Analysis Report ", "")>>

\* print of the closing rule (line 189)
ReportClose(r) == IF r.exc # "" THEN r ELSE Ok(Append(r.printed, P("rule", "", "")))

\* Lines 149-189, issues read
ReportIssues(issues) ==
    IF Truthy(issues) /\ LenRaises(issues) # "" THEN Raised(LenRaises(issues), ReportHead)
    ELSE IF ~Truthy(issues)
    THEN Ok(ReportHead \o
            <<P("box", "", ""),
              P("none", "No inconsistencies were found in the presentation.\n", "")>>)
    ELSE ReportClose(
             IssueLoop(Items(issues), 0,
                 ReportHead \o
                 <<P("count",
                     "Found " \o ToString(PyLen(issues)) \o " potential issue(s) to review.",
                     ToString(PyLen(issues))),
                   P("box", "", "")>>))

\* The branch of a result that has "error", in both renderers (lines 131-133,
\* 258-259)
ErrorBranch(analysis_data) ==
    IF SubscriptRaises(analysis_data, "error") # ""
    THEN Raised(SubscriptRaises(analysis_data, "error"), <<>>)
    ELSE Ok(<<P("error",
                "An error occurred:\n" \o PyStr(Lookup(analysis_data, "error")),
                PyStr(Lookup(analysis_data, "error")))>>)

\* generate_report
generate_report(analysis_data) ==
    IF InRaises(analysis_data) # "" THEN Raised(InRaises(analysis_data), <<>>)
    ELSE IF In("error", analysis_data) THEN ErrorBranch(analysis_data)
    ELSE IF GetRaises(analysis_data) # "" THEN Raised(GetRaises(analysis_data), <<>>)
    ELSE ReportIssues(Get(analysis_data, "issues", EmptyList))

\* for ev in issue.get('evidence', []): (lines 270-271)
PlainEvidence(evs) ==
    [j \in 1..Len(evs) |-> P("evidence", "  - " \o PyStr(evs[j]), PyStr(evs[j]))]

\* for i, issue in enumerate(issues): (lines 265-271)
RECURSIVE PlainLoop(_, _, _)
RECURSIVE PlainIssue(_, _, _, _)
RECURSIVE PlainFields(_, _, _, _)
PlainLoop(issues, i, report_lines) ==
    IF i = Len(issues) THEN Ok(report_lines)
    ELSE PlainIssue(issues, i,
             Append(report_lines,
                    P("ordinal", "\n--- ISSUE #" \o ToString(i + 1) \o " ---\n",
                      ToString(i + 1))),
             issues[i + 1])

\* TYPE, CONFLICT and the label of the evidence (lines 267-269)
PlainIssue(issues, i, report_lines, issue) ==
    IF GetRaises(issue) # "" THEN Raised(GetRaises(issue), report_lines)
    ELSE PlainFields(issues, i,
             report_lines \o
             <<P("type", "TYPE: " \o PyStr(Get(issue, "type", NA)),
                 PyStr(Get(issue, "type", NA))),
               P("conflict", "CONFLICT: " \o PyStr(Get(issue, "conflict", NA)),
                 PyStr(Get(issue, "conflict", NA))),
               P("label", "EVIDENCE:", "")>>,
             Get(issue, "evidence", EmptyList))

PlainFields(issues, i, report_lines, evidence) ==
    IF IterRaises(evidence) # "" THEN Raised(IterRaises(evidence), report_lines)
    ELSE PlainLoop(issues, i + 1, report_lines \o PlainEvidence(Items(evidence)))

Rule80 == "================================================================================"

\* Lines 260-271, issues read
PlainIssues(issues) ==
    IF ~Truthy(issues)
    THEN Ok(<<P("none", "No inconsistencies were found in the presentation.", "")>>)
    ELSE IF LenRaises(issues) # "" THEN Raised(LenRaises(issues), <<>>)
    ELSE PlainLoop(Items(issues), 0,
             <<P("count",
                 "AI Inconsistency Analysis Report: Found "
                     \o ToString(PyLen(issues)) \o " Issues\n" \o Rule80,
                 ToString(PyLen(issues)))>>)

\* report_lines of generate_plain_text_report, or the one string it returns
\* early
PlainLines(analysis_data) ==
    IF InRaises(analysis_data) # "" THEN Raised(InRaises(analysis_data), <<>>)
    ELSE IF In("error", analysis_data) THEN ErrorBranch(analysis_data)
    ELSE IF GetRaises(analysis_data) # "" THEN Raised(GetRaises(analysis_data), <<>>)
    ELSE PlainIssues(Get(analysis_data, "issues", EmptyList))

\* "\n".join(report_lines)
PlainText(r) ==
    [exc |-> r.exc,
     text |-> IF r.exc # "" THEN ""
              ELSE JoinStr([i \in 1..Len(r.printed) |-> r.printed[i].text], "\n")]

\* generate_plain_text_report: [exc, text]
generate_plain_text_report(analysis_data) == PlainText(PlainLines(analysis_data))

-----------------------------------------------------------------------------
(* SpecRender: both renderers on every analysis result within the bounds *)

MaxIssues == 2      \* items of "issues"
MaxEvidence == 2    \* items of an issue's "evidence"

Absent == [t |-> "absent", s |-> "", n |-> 0, l |-> <<>>, o |-> <<>>]

LongText ==
    "The total revenue stated on one slide does not match the sum of regional revenues on another."

TypeOptions == {Absent, JStr("Numerical Inconsistency")}

ConflictOptions ==
    {Absent, JStr("Mismatch between totals"), JStr(""), JNull, JStr(LongText)}

EvidenceEntries == {JStr("Slide 1: $10M"), JStr(""), JNum(5)}

EvidenceOptions ==
    {Absent, JNull, JStr("ab")}
        \cup {JList(e) : e \in UNION {[1..k -> EvidenceEntries] : k \in 0..MaxEvidence}}

\* The members given, in order, without the absent ones
Members(pairs) == SelectSeq(pairs, LAMBDA p : p[2] # Absent)

IssueOptions ==
    {JObj(Members(<< <<"type", ty>>, <<"conflict", c>>, <<"evidence", e>> >>)) :
        ty \in TypeOptions, c \in ConflictOptions, e \in EvidenceOptions}
        \cup {JNull, JStr("oops")}

IssuesOptions ==
    {JList(i) : i \in UNION {[1..k -> IssueOptions] : k \in 0..MaxIssues}}
        \cup {Absent, JNull, JNum(0), JNum(3), JStr(""), JStr("none"), JObj(<<>>),
              JObj(<< <<"a", JNull>> >>)}

AnalysisData ==
    {JObj(Members(<< <<"issues", i>> >>)) : i \in IssuesOptions}
        \cup {JObj(<< <<"error", JStr("boom")>> >>),
              JObj(<< <<"error", JNull>> >>),
              JObj(<< <<"error", JStr("quota")>>, <<"issues", EmptyList>> >>),
              JNull, JNum(5), JStr("error"), JStr("fine"), EmptyList,
              JList(<<JStr("error")>>)}

NotRendered == [done |-> FALSE, shown |-> <<>>, lines |-> <<>>, plain |-> <<>>]

InitRender ==
    /\ inp \in AnalysisData
    /\ out = NotRendered
    /\ fs = 0 /\ cache = <<>> /\ run = <<>>

Render ==
    /\ ~out.done
    /\ out' = [done |-> TRUE,
               shown |-> generate_report(inp),
               lines |-> PlainLines(inp),
               plain |-> generate_plain_text_report(inp)]
    /\ UNCHANGED <<fs, cache, run, inp>>

NextRender == Render

SpecRender == InitRender /\ [][NextRender]_vars

\* The vals of the records of kind k, in order
KindVals(printed, k) ==
    LET sel == SelectSeq(printed, LAMBDA r : r.k = k)
    IN [i \in 1..Len(sel) |-> sel[i].val]

WellFormedIssues(d) ==
    /\ d.t = "obj" /\ ~HasKey(d, "error") /\ HasKey(d, "issues")
    /\ Lookup(d, "issues").t = "list"
    /\ \A i \in 1..Len(Lookup(d, "issues").l) : Lookup(d, "issues").l[i].t = "obj"

\* "N/A" stands for an absent type or conflict of issue i
Defaults(d, printed) ==
    \A i \in 1..Len(Lookup(d, "issues").l) :
        LET issue == Lookup(d, "issues").l[i] IN
        /\ ~HasKey(issue, "type") => KindVals(printed, "type")[i] = "N/A"
        /\ ~HasKey(issue, "conflict") => KindVals(printed, "conflict")[i] = "N/A"

\* C5: rendering is total: for every analysis result both renderers end
\* without an exception and with a non-empty report, "N/A" standing for an
\* absent type or conflict.
C5_RenderingTotal ==
    out.done =>
        /\ out.shown.exc = "" /\ out.shown.printed # <<>>
        /\ out.plain.exc = "" /\ out.plain.text # ""
        /\ WellFormedIssues(inp) =>
              /\ Defaults(inp, out.shown.printed)
              /\ Defaults(inp, out.lines.printed)

\* What a report says: the records that carry a fact (the branch, the count,
\* each ordinal, type, conflict and evidence entry), a wrapped value put
\* together again, whitespace apart.
Squeeze(text) == Replace(Replace(Replace(text, " ", ""), "\n", ""), "\t", "")

FactKinds == {"error", "none", "count", "ordinal", "type", "conflict", "evidence"}

RECURSIVE FactsOf(_, _)
FactsOf(printed, facts) ==
    IF printed = <<>> THEN facts
    ELSE LET r == Head(printed) IN
         FactsOf(Tail(printed),
            IF r.k \in FactKinds THEN Append(facts, <<r.k, Squeeze(r.val)>>)
            ELSE IF r.k \in {"conflict+", "evidence+"}
            THEN [facts EXCEPT ![Len(facts)] = <<@[1], @[2] \o Squeeze(r.val)>>]
            ELSE facts)

Facts(r) == IF r.exc # "" THEN <<"raised">> ELSE FactsOf(r.printed, <<>>)

\* C6: for every analysis result the decorated and the plain report say the
\* same: the same branch and, for an issue list, the same ordinals, types,
\* conflicts and evidence entries in the same order.
C6_SameInformation == out.done => Facts(out.shown) = Facts(out.lines)

-----------------------------------------------------------------------------
(* json.loads and json.dump(indent = 4), on the documents of the model: the *)
(* texts are those the json module reads and writes.                        *)

NoIssues == JObj(<< <<"issues", JList(<<>>)>> >>)
NoIssuesText == "{\"issues\": []}"
NoIssuesDump == "{\n    \"issues\": []\n}"

OneIssue ==
    JObj(<< <<"issues", JList(<<
        JObj(<< <<"type", JStr("Numerical Inconsistency")>>,
                <<"conflict", JStr("Mismatch between totals")>>,
                <<"evidence", JList(<<JStr("Slide 1: $10M"), JStr("Slide 2: $9.8M")>>)>> >>)
    >>)>> >>)
OneIssueText == "{\"issues\": [{\"type\": \"Numerical Inconsistency\", \"conflict\": \"Mismatch between totals\", \"evidence\": [\"Slide 1: $10M\", \"Slide 2: $9.8M\"]}]}"
OneIssueDump == "{\n    \"issues\": [\n        {\n            \"type\": \"Numerical Inconsistency\",\n            \"conflict\": \"Mismatch between totals\",\n            \"evidence\": [\n                \"Slide 1: $10M\",\n                \"Slide 2: $9.8M\"\n            ]\n        }\n    ]\n}"

BlankConflict ==
    JObj(<< <<"issues", JList(<<
        JObj(<< <<"type", JStr("Logical")>>, <<"conflict", JStr("")>>,
                <<"evidence", JList(<<>>)>> >>)
    >>)>> >>)
BlankConflictText == "{\"issues\": [{\"type\": \"Logical\", \"conflict\": \"\", \"evidence\": []}]}"
BlankConflictDump == "{\n    \"issues\": [\n        {\n            \"type\": \"Logical\",\n            \"conflict\": \"\",\n            \"evidence\": []\n        }\n    ]\n}"

ServiceError == JObj(<< <<"error", JStr("quota exceeded")>> >>)
ServiceErrorText == "{\"error\": \"quota exceeded\"}"
ServiceErrorDump == "{\n    \"error\": \"quota exceeded\"\n}"

NullText == "null"

JsonTexts ==
    << <<NoIssuesText, NoIssues>>, <<NoIssuesDump, NoIssues>>,
       <<OneIssueText, OneIssue>>, <<OneIssueDump, OneIssue>>,
       <<BlankConflictText, BlankConflict>>, <<BlankConflictDump, BlankConflict>>,
       <<ServiceErrorText, ServiceError>>, <<ServiceErrorDump, ServiceError>>,
       <<NullText, JNull>> >>

JsonDumps ==
    << <<NoIssues, NoIssuesDump>>, <<OneIssue, OneIssueDump>>,
       <<BlankConflict, BlankConflictDump>>, <<ServiceError, ServiceErrorDump>>,
       <<JNull, NullText>> >>

\* An object of the one member "error", a string with no character that
\* json escapes, as json.dump(indent=4) writes it: ErrorHead, the string,
\* ErrorTail.
ErrorHead == "{\n    \"error\": \""
ErrorTail == "\"\n}"

IsErrorText(text) ==
    /\ Len(text) >= Len(ErrorHead) + Len(ErrorTail)
    /\ StartsWith(text, ErrorHead)
    /\ SubSeq(text, Len(text) - Len(ErrorTail) + 1, Len(text)) = ErrorTail

\* json.loads(text): whitespace around the document is skipped; a text that
\* is no document raises.  [exc, val]
JsonLoads(text) ==
    IF \E i \in 1..Len(JsonTexts) : JsonTexts[i][1] = Strip(text)
    THEN [exc |-> "",
          val |-> JsonTexts[CHOOSE i \in 1..Len(JsonTexts) : JsonTexts[i][1] = Strip(text)][2]]
    ELSE IF IsErrorText(Strip(text))
    THEN [exc |-> "",
          val |-> JObj(<< <<"error",
                            JStr(SubSeq(Strip(text), Len(ErrorHead) + 1,
                                        Len(Strip(text)) - Len(ErrorTail)))>> >>)]
    ELSE [exc |-> "JSONDecodeError", val |-> JNull]

\* json.dump(data, f, indent=4)
JsonDump(data) ==
    IF \E i \in 1..Len(JsonDumps) : JsonDumps[i][1] = data
    THEN JsonDumps[CHOOSE i \in 1..Len(JsonDumps) : JsonDumps[i][1] = data][2]
    ELSE ErrorHead \o Lookup(data, "error").s \o ErrorTail

-----------------------------------------------------------------------------
(* The cache *)

CACHE_DIR == ".cache"

\* hashlib.md5(bytes).hexdigest() of the files of the model: no two collide.
Md5 == <<"0cc175b9c0f1b6a831c399e269772661", "92eb5ffee6ae2fec3ad71c777531578f",
         "4a8a08f09d37b73795649038408b5f33", "8277e0910d750195b448797616e091ad">>

get_file_hash(bytes) == Md5[bytes]

\* A key that leaves the hash of the bytes out.
CachePathByName(path, bytes) == CACHE_DIR \o "/" \o Basename(path) \o ".json"

\* os.path.join(CACHE_DIR, f"{os.path.basename(file_path)}_{file_hash}.json")
CachePath(path, bytes) ==
    CACHE_DIR \o "/" \o Basename(path) \o "_" \o get_file_hash(bytes) \o ".json"

\* read_from_cache: open(cache_path, 'r') raises perm on a file the process
\* may not read; json.load raises on a text that is not JSON.  [exc, val]
read_from_cache(text, perm) ==
    IF perm # "ok" THEN [exc |-> perm, val |-> JNull] ELSE JsonLoads(text)

\* A write that stores an empty result whatever the data.
WriteEmptyResult(files, path, data, disk) ==
    (path :> IF disk = "full" THEN "" ELSE JsonDump(NoIssues)) @@ files

\* write_to_cache: open(cache_path, 'w') empties or creates the file, and
\* json.dump fills it; on a full disk nothing of the text reaches the file
\* and the write raises OSError.
write_to_cache(files, path, data, disk) ==
    (path :> IF disk = "full" THEN "" ELSE JsonDump(data)) @@ files

-----------------------------------------------------------------------------
(* The analysis client.  The service is outside the program: svc is what    *)
(* it does on one call, [configure |-> "" or the text of the exception of   *)
(* genai.configure / GenerativeModel, generate |-> "" or the text of the   *)
(* exception of generate_content / response.text, text |-> response.text]. *)

\* The fence of a Markdown code block: three backquotes in the program (a
\* backquote cannot be written in a string of this language).
FENCE == "~~~"

ErrorResult(message) == JObj(<< <<"error", JStr(message)>> >>)

\* response.text.strip().replace(FENCE + "json", "").replace(FENCE, "")
\* (line 121)
Cleaned(text) == Replace(Replace(Strip(text), FENCE \o "json", ""), FENCE, "")

\* The client without its handlers: what the calls raise reaches the caller.
AnalyzeUncaught(content_dict, api_key, svc) ==
    IF svc.configure # "" THEN [exc |-> "Exception", val |-> JNull]
    ELSE IF svc.generate # "" THEN [exc |-> "Exception", val |-> JNull]
    ELSE JsonLoads(Cleaned(svc.text))

ConfigureFailed == "Failed to configure Gemini API: "
CallFailed == "An error occurred during the Gemini API call: "
DecodeFailed ==
    "Failed to decode JSON from AI response. The model may have returned an invalid format."

\* return json.loads(cleaned_text), and the handler of json.JSONDecodeError
\* (lines 122-124)
Decoded(loaded) ==
    IF loaded.exc = "JSONDecodeError"
    THEN [exc |-> "", val |-> ErrorResult(DecodeFailed)]
    ELSE [exc |-> "", val |-> loaded.val]

\* analyze_with_gemini: [exc, val]
analyze_with_gemini(content_dict, api_key, svc) ==
    IF svc.configure # ""
    THEN [exc |-> "", val |-> ErrorResult(ConfigureFailed \o svc.configure)]
    ELSE IF svc.generate # ""
    THEN [exc |-> "", val |-> ErrorResult(CallFailed \o svc.generate)]
    ELSE Decoded(JsonLoads(Cleaned(svc.text)))

-----------------------------------------------------------------------------
(* main *)

FilePath == "decks/q3.pptx"

\* The files the source path may hold, by the id of their bytes: what
\* Presentation(file_path) makes of them.
Slide(shapes, notes) ==
    [shapes |-> shapes, has_notes_slide |-> notes # "", notes |-> notes]

Files ==
    << [valid |-> TRUE,
        slides |-> <<Slide(<<TextShape("Revenue: $10M")>>, ""),
                     Slide(<<TextShape("Regional total: $9.8M"), Picture("chart")>>,
                           "Mention Q3")>>],
       [valid |-> TRUE,
        slides |-> <<Slide(<<TextShape(" "), Picture("corrupt")>>, ""),
                     Slide(<<>>, "")>>],
       [valid |-> TRUE, slides |-> <<>>],
       [valid |-> FALSE, slides |-> <<>>] >>

NoSvc == [configure |-> "", generate |-> "", text |-> ""]

Services ==
    {[configure |-> "API key not valid", generate |-> "", text |-> ""],
     [configure |-> "", generate |-> "504 Deadline Exceeded", text |-> ""]}
        \cup {[configure |-> "", generate |-> "", text |-> t] :
                t \in {FENCE \o "json\n" \o NoIssuesText \o "\n" \o FENCE \o "\n",
                       OneIssueText, ServiceErrorText, NullText,
                       "I found no issues."}}

\* A command line and a config.ini
Invocation(file, default_file, output, no_cache, caching, api_key) ==
    [file |-> file, default_file |-> default_file, output |-> output,
     no_cache |-> no_cache, caching |-> caching, api_key |-> api_key]

Invocations ==
    {Invocation(FilePath, "", o, c[1], c[2], "AIza-key") :
        o \in {"", "report.txt"}, c \in {<<FALSE, TRUE>>, <<TRUE, TRUE>>, <<FALSE, FALSE>>}}
        \cup {Invocation("", FilePath, "", FALSE, TRUE, "AIza-key"),
              Invocation("", "", "", FALSE, TRUE, "AIza-key"),
              Invocation(FilePath, "", "", FALSE, TRUE, ""),
              Invocation(FilePath, "", "", FALSE, TRUE, "YOUR_API_KEY_HERE")}

NoReport == [mode |-> "", exc |-> "", printed |-> <<>>, text |-> ""]

\* What the last run did: entry is "" when the run found no file at
\* cache_path, "read" when it read and parsed one, and the exception when
\* reading it raised; hit when the entry is the result of the run; wrote when
\* write_to_cache was called, and disk what came of it; exit is "exit(1)",
\* "return", "crash" (an exception out of main) or "done".
NoRun ==
    [ran |-> FALSE, file_path |-> "", output |-> "", api_key |-> "",
     bytes |-> 0,
     use_caching |-> FALSE, cache_path |-> "", entry |-> "",
     hit |-> FALSE, extracted |-> FALSE, content |-> <<>>,
     calls |-> 0, svc |-> NoSvc, wrote |-> FALSE, disk |-> "ok",
     messages |-> <<>>, analysis_result |-> JNull, exit |-> "", report |-> NoReport]

\* A test that takes every result for one to analyse again.
NeedsAnalysisAlways(analysis_result) == TRUE

\* if analysis_result is None: (line 229)
NeedsAnalysis(analysis_result) == analysis_result = JNull

\* A handler that ends the run on any failure of the cache.
AbsorbsNone(exc) == FALSE

\* except FileNotFoundError: exit; except Exception: go on (lines 223-227)
Absorbs(exc) == exc # "FileNotFoundError"

\* A test that lets an error result into the cache.
ShouldWriteAny(use_caching, analysis_result) == use_caching

\* if use_caching and "error" not in analysis_result: (line 236), where the
\* test does not raise
ShouldWrite(use_caching, analysis_result) ==
    use_caching /\ ~In("error", analysis_result)

Said(r, message) == [r EXCEPT !.messages = Append(@, message)]

Exit1(r, message) == [Said(r, message) EXCEPT !.exit = "exit(1)"]

\* except Exception as e: print(...); return (lines 239-241)
Unexpected(r) ==
    [Said(r, "An unexpected error occurred during analysis") EXCEPT !.exit = "return"]

\* Lines 220-227: the entry at cache_path is read; loaded is what
\* read_from_cache made of it.
Loaded(r, loaded) ==
    IF loaded.exc = ""
    THEN [r EXCEPT !.entry = "read", !.analysis_result = loaded.val,
                   !.hit = ~NeedsAnalysis(loaded.val)]
    ELSE IF Absorbs(loaded.exc)
    THEN [Said(r, "Could not read cache, proceeding with analysis.")
             EXCEPT !.entry = loaded.exc]
    ELSE [Exit1(r, "Error: The file was not found.") EXCEPT !.entry = loaded.exc]

\* Lines 218-222, the hash of the file taken
Keyed(r, files, perm) ==
    IF r.cache_path \notin DOMAIN files THEN r
    ELSE Loaded(Said(r, "Loading results from cache"),
                read_from_cache(files[r.cache_path], perm))

\* Lines 214-227: the lookup.  A source file that is not there makes
\* get_file_hash raise FileNotFoundError.
CacheLookup(r, files, fs0, perm) ==
    IF ~r.use_caching THEN r
    ELSE IF fs0 = 0 THEN Exit1(r, "Error: The file was not found.")
    ELSE Keyed([r EXCEPT !.cache_path = CachePath(r.file_path, fs0)], files, perm)

\* Lines 236-238: the result of the analysis is written to the cache or not.
\* [run, files]
Written(r, files, disk) ==
    IF r.use_caching /\ InRaises(r.analysis_result) # ""
    THEN [run |-> Unexpected(r), files |-> files]
    ELSE IF ~ShouldWrite(r.use_caching, r.analysis_result)
    THEN [run |-> r, files |-> files]
    ELSE [run |-> IF disk # "ok"
                  THEN Unexpected([r EXCEPT !.wrote = TRUE, !.disk = disk])
                  ELSE Said([r EXCEPT !.wrote = TRUE, !.disk = disk],
                            "Analysis complete. Results saved to cache"),
          files |-> write_to_cache(files, r.cache_path, r.analysis_result, disk)]

\* Line 235, a the result of analyze_with_gemini
Analyzed(r, files, a, svc, disk) ==
    IF a.exc # ""
    THEN [run |-> Unexpected([r EXCEPT !.calls = 1, !.svc = svc]), files |-> files]
    ELSE Written([r EXCEPT !.calls = 1, !.svc = svc, !.analysis_result = a.val],
                 files, disk)

\* Lines 232-235, content the result of extract_content_from_pptx
Extracted(r, files, content, api_key, svc, disk) ==
    IF content = <<>>
    THEN [run |-> [Said(r, "Could not extract any content from the presentation.")
                      EXCEPT !.extracted = TRUE, !.exit = "return"],
          files |-> files]
    ELSE Analyzed([r EXCEPT !.extracted = TRUE, !.content = content], files,
                  analyze_with_gemini(content, api_key, svc), svc, disk)

\* Lines 229-241: extraction, analysis and the write of the cache.
\* extract_content_from_pptx exits on a path that holds no file (lines
\* 62-64: SystemExit is no Exception, the handler of line 239 lets it
\* through), and Presentation(file_path) raises on a file that is no
\* presentation.  [run, files]
Analysis(r, files, fs0, api_key, svc, disk) ==
    IF r.exit # "" \/ ~NeedsAnalysis(r.analysis_result) THEN [run |-> r, files |-> files]
    ELSE IF fs0 = 0
    THEN [run |-> [Exit1(r, "Error: The file was not found.") EXCEPT !.extracted = TRUE],
          files |-> files]
    ELSE IF ~Files[fs0].valid
    THEN [run |-> Unexpected([r EXCEPT !.extracted = TRUE]), files |-> files]
    ELSE Extracted(r, files, extract_content_from_pptx(Files[fs0].slides),
                   api_key, svc, disk)

\* The report written: an exception of the renderer ends the run.
Reported(r, mode, g) ==
    [r EXCEPT !.report = [mode |-> mode, exc |-> g.exc, printed |-> g.printed,
                          text |-> g.text],
              !.exit = IF g.exc # "" THEN "crash" ELSE "done"]

FileReport(g) == [exc |-> g.exc, printed |-> <<>>, text |-> g.text]

ConsoleReport(g) == [exc |-> g.exc, printed |-> g.printed, text |-> ""]

\* Lines 246-254: the report, to the file of --output or to the console
Report(r) ==
    IF r.exit # "" THEN r
    ELSE IF r.output # ""
    THEN Reported(r, "file", FileReport(generate_plain_text_report(r.analysis_result)))
    ELSE Reported(r, "console", ConsoleReport(generate_report(r.analysis_result)))

\* Lines 203-241 of main, r0 the run as it starts
Started(r0, inv, svc, disk, perm, fs0, files) ==
    IF r0.file_path = ""
    THEN [run |-> Exit1(r0, "Error: No presentation file specified."), files |-> files]
    ELSE IF inv.api_key = "" \/ inv.api_key = "YOUR_API_KEY_HERE"
    THEN [run |-> Exit1(r0, "Error: API key not found in config.ini."), files |-> files]
    ELSE Analysis(CacheLookup(r0, files, fs0, perm), files, fs0, inv.api_key, svc, disk)

\* main up to the report: [run, files]
MainAnalysis(inv, svc, disk, perm, fs0, files) ==
    Started([NoRun EXCEPT !.ran = TRUE, !.bytes = fs0,
                          !.file_path = IF inv.file # "" THEN inv.file ELSE inv.default_file,
                          !.output = inv.output, !.api_key = inv.api_key,
                          !.use_caching = ~inv.no_cache /\ inv.caching],
            inv, svc, disk, perm, fs0, files)

-----------------------------------------------------------------------------
(* Spec: runs of main, and the user replacing or removing the source file *)

Init ==
    /\ fs \in 0..Len(Files)
    /\ cache = <<>>
    /\ run = NoRun
    /\ inp = <<>> /\ out = <<>>

\* What is outside the program in one run: the answer of the service, the
\* outcome of a write to the cache and of the read of an entry.  Each is
\* drawn only for a run that gets that far.  m is main up to the report.
Ran(m, svc, disk, perm) ==
    /\ disk # "ok" => m.run.wrote
    /\ perm # "ok" => m.run.entry = perm
    /\ m.run.calls = 0 <=> svc = NoSvc
    /\ run' = Report(m.run)
    /\ cache' = m.files
    /\ UNCHANGED <<fs, inp, out>>

Run ==
    \E inv \in Invocations, svc \in Services \cup {NoSvc},
       disk \in {"ok", "full"}, perm \in {"ok", "PermissionError"} :
        Ran(MainAnalysis(inv, svc, disk, perm, fs, cache), svc, disk, perm)

ReplaceFile ==
    \E b \in 0..Len(Files) :
        /\ b # fs
        /\ fs' = b
        /\ UNCHANGED <<cache, run, inp, out>>

Next == Run \/ ReplaceFile

Spec == Init /\ [][Next]_vars

-----------------------------------------------------------------------------
(* The properties of a run *)

\* "error" in v holds and does not raise
ErrorVariant(v) == InRaises(v) = "" /\ In("error", v)

\* Two runs of one command line and one config.ini
SameInvocation(r1, r2) ==
    /\ r1.ran /\ r2.ran
    /\ r1.file_path = r2.file_path /\ r1.output = r2.output
    /\ r1.api_key = r2.api_key /\ r1.use_caching = r2.use_caching

\* The report of result v in a run that got as far as the report
ReportOf(r, v) == Report([r EXCEPT !.analysis_result = v, !.exit = "", !.report = NoReport]).report

\* C1: in a run with caching enabled, if an entry exists under the key of the
\* file (base name and hash of the content) and reads and parses cleanly,
\* the report of the run is the report of that entry, and the run neither
\* extracts nor calls the analysis, nor writes the cache.
C1_HitSkipsAnalysis ==
    (run.ran /\ run.use_caching /\ run.entry = "read") =>
        /\ run.cache_path = CachePath(run.file_path, run.bytes)
        /\ run.cache_path \in DOMAIN cache
        /\ run.hit /\ ~run.extracted /\ run.calls = 0 /\ ~run.wrote
        /\ run.analysis_result = JsonLoads(cache[run.cache_path]).val
        /\ run.exit \in {"done", "crash"}
        /\ run.report = ReportOf(run, JsonLoads(cache[run.cache_path]).val)

\* A run served from the cache, with one issue in its report
C1_Witness ==
    /\ run.ran /\ run.use_caching /\ run.entry = "read" /\ run.exit = "done"
    /\ run.analysis_result = OneIssue
    /\ run.report.mode = "console" /\ Len(run.report.printed) > 4

\* C2: the cache never holds an error variant: a run writes the cache only
\* with caching enabled and a result of the analysis that is not an error
\* variant, nothing else changes the cache, and the run that follows a failed
\* analysis of the same file calls the analysis again, unless an entry that
\* was there before serves it a result that is not an error variant.
C2_NoErrorCached ==
    [][/\ \A k \in DOMAIN cache' : ~ErrorVariant(JsonLoads(cache'[k]).val)
       /\ run'.wrote =>
            /\ run'.use_caching /\ run'.calls = 1
            /\ ~ErrorVariant(run'.analysis_result)
       /\ cache' # cache => run'.wrote
       /\ (run'.calls = 1 /\ ErrorVariant(run'.analysis_result)) => cache' = cache
       /\ (/\ run.calls = 1 /\ ErrorVariant(run.analysis_result)
           /\ run.use_caching /\ SameInvocation(run, run')
           /\ run'.bytes = run.bytes /\ fs' = fs)
          => \/ run'.calls = 1
             \/ run'.hit /\ ~ErrorVariant(run'.analysis_result)]_vars

\* A failed analysis in a run with caching, nothing under its key, another
\* file's result in the cache
C2_Witness ==
    /\ run.ran /\ run.use_caching /\ run.calls = 1
    /\ run.svc.generate # "" /\ ErrorVariant(run.analysis_result)
    /\ run.exit = "done" /\ ~run.wrote
    /\ run.cache_path \notin DOMAIN cache /\ cache # <<>>

\* The run's result is in the cache when the run ends: it came from there, or
\* the write of it completed.
Stored(r) == r.hit \/ (r.wrote /\ r.disk = "ok")

\* C3, as stated: when the same unchanged deck is run twice with caching
\* enabled, the second run does not call the analysis and its report is the
\* report of the first.
C3_SecondRunServed ==
    [][(/\ SameInvocation(run, run') /\ run.use_caching
        /\ run.bytes # 0 /\ run'.bytes = run.bytes /\ fs' = fs)
       => run'.calls = 0 /\ run'.report = run.report]_vars

\* C3, amended: when the same unchanged deck is run twice with caching
\* enabled, the first run ended with its result in the cache and the second
\* reads that entry, the second run does not call the analysis and its
\* report is the report of the first.
C3_SecondRunServedFromCache ==
    [][/\ (/\ SameInvocation(run, run') /\ run.use_caching
           /\ run.bytes # 0 /\ run'.bytes = run.bytes /\ fs' = fs
           /\ Stored(run) /\ run'.entry = "read")
          => run'.calls = 0 /\ run'.report = run.report
       /\ (run'.ran /\ run'.use_caching /\ Stored(run'))
          => /\ run'.cache_path \in DOMAIN cache'
             /\ run'.report = ReportOf(run', JsonLoads(cache'[run'.cache_path]).val)]_vars

\* A second run of the deck of empty slides, served from the entry an
\* earlier run wrote, its report saved to the file of --output
C3_Witness ==
    /\ run.ran /\ run.use_caching /\ run.hit /\ run.calls = 0
    /\ run.output # "" /\ run.report.mode = "file" /\ run.exit = "done"
    /\ run.analysis_result = NoIssues /\ run.bytes = 2

\* every entry of the corpus is the empty string
EmptyCorpus(content) == \A i \in DOMAIN content : content[i] = ""

\* C4: on a miss or with caching disabled, a run whose corpus is entirely
\* empty (every slide's entry is "", a deck with no slides included) ends
\* with the "no content" message and neither calls the analysis nor writes
\* the cache.
C4_EmptyCorpusFailsFast ==
    (/\ run.ran /\ run.extracted /\ run.bytes # 0
     /\ Files[run.bytes].valid
     /\ EmptyCorpus(extract_content_from_pptx(Files[run.bytes].slides)))
    => /\ run.calls = 0 /\ ~run.wrote
       /\ run.exit = "return"
       /\ run.messages[Len(run.messages)] = "Could not extract any content from the presentation."

\* C7: with caching enabled, a run that fails to read or to parse the entry
\* of an existing source file takes it for a miss: it says so, does not
\* exit, and goes on to extract and to call the analysis.
C7_CacheFailureAbsorbed ==
    (run.ran /\ run.use_caching /\ run.entry \notin {"", "read"}) =>
        /\ run.bytes # 0
        /\ run.exit # "exit(1)"
        /\ \E i \in 1..Len(run.messages) :
              run.messages[i] = "Could not read cache, proceeding with analysis."
        /\ ~run.hit /\ run.extracted /\ run.calls = 1

\* An entry cut short by a full disk, read by the next run, which analyses
\* again and writes the result over it
C7_Witness ==
    /\ run.ran /\ run.use_caching /\ run.entry = "JSONDecodeError"
    /\ run.calls = 1 /\ run.wrote /\ run.disk = "ok" /\ run.exit = "done"
    /\ cache[run.cache_path] = OneIssueDump

\* C8, as stated: what is stored under a key of the cache never changes
\* after its first write.
C8_EntriesImmutable ==
    [][\A k \in DOMAIN cache : k \in DOMAIN cache' /\ cache'[k] = cache[k]]_vars

\* C8, amended: what is stored under a key is never removed, and changes
\* only in a run with caching enabled that found the entry, got no result
\* from it (the read or the parse failed, or the entry is the JSON value
\* null) and writes its own result over it; a run writes under the key of
\* the bytes it read, and files of different bytes have different keys.
C8_EntriesImmutableOnceRead ==
    [][/\ \A k \in DOMAIN cache :
            /\ k \in DOMAIN cache'
            /\ cache'[k] # cache[k] =>
                 /\ run'.use_caching /\ run'.wrote /\ run'.cache_path = k
                 /\ run'.entry # "" /\ ~run'.hit
       /\ run'.wrote => run'.cache_path = CachePath(run'.file_path, run'.bytes)
       /\ \A k \in DOMAIN cache' \ DOMAIN cache : run'.wrote /\ run'.cache_path = k
       /\ \A b1, b2 \in 1..Len(Files) :
            b1 # b2 => CachePath(FilePath, b1) # CachePath(FilePath, b2)]_vars

\* Two files analysed, each under its own key, the entry of the second
\* written over an entry that could not be read
C8_Witness ==
    /\ run.ran /\ run.wrote /\ run.disk = "ok" /\ run.bytes = 2
    /\ run.entry = "PermissionError"
    /\ CachePath(FilePath, 1) \in DOMAIN cache
    /\ cache[CachePath(FilePath, 2)] = NoIssuesDump

\* What the service does makes the analysis fail: the client cannot be
\* configured, the call raises, or the text is not JSON once the fences are
\* off.
ServiceFails(svc) ==
    \/ svc.configure # ""
    \/ svc.generate # ""
    \/ JsonLoads(Cleaned(svc.text)).exc # ""

FailureMessage(svc) ==
    IF svc.configure # "" THEN ConfigureFailed \o svc.configure
    ELSE IF svc.generate # "" THEN CallFailed \o svc.generate
    ELSE DecodeFailed

\* C9: analyze_with_gemini raises nothing to main: when the client cannot be
\* configured, the call fails or the answer is not JSON once the fences are
\* off, its result is the error variant with the message, and the run writes
\* nothing to the cache and ends with the report of that error.
C9_AnalysisErrorsReported ==
    (run.ran /\ run.calls = 1 /\ ServiceFails(run.svc)) =>
        /\ run.analysis_result = ErrorResult(FailureMessage(run.svc))
        /\ ~run.wrote
        /\ run.exit = "done"
        /\ run.report.exc = ""
        /\ run.report.mode = "file" =>
              run.report.text = "An error occurred:\n" \o FailureMessage(run.svc)
        /\ run.report.mode = "console" =>
              /\ Len(run.report.printed) = 1
              /\ run.report.printed[1].val = FailureMessage(run.svc)

\* An answer that is not JSON, reported to the console
C9_Witness ==
    /\ run.ran /\ run.calls = 1 /\ run.svc.text = "I found no issues."
    /\ run.exit = "done" /\ run.report.mode = "console"
    /\ run.analysis_result = ErrorResult(DecodeFailed)

====
